---- MODULE Spec2Model ----
(***************************************************************************)
(* The antenna comparison session of tools/antenna.py and its web front    *)
(* end tools/antenna_web.py: an event log kept in antenna_log.json, the    *)
(* handlers that read, validate and append to it, and the pure replays     *)
(* that derive the session status and the antenna intervals from it.       *)
(***************************************************************************)
EXTENDS Integers, Sequences, FiniteSets, TLC

\* ------------------------------------------------------------------ bounds

\* Longest event log the handlers may build (their appends are guarded by it).
MaxLog == 6
\* Largest clock reading; timestamps are clock readings 0..MaxTime.
MaxTime == 2
\* Longest event log in the interleaved specification.
MaxLogConc == 3
\* Largest clock reading in the interleaved specification.
MaxTimeConc == 1

\* ------------------------------------------------------------------ values

\* Python's None for a label, a band or a description.
None == "none"
\* Python's None for a datetime.
NoTime == -1

\* (label, band) arguments of use: two defined antennas and an unknown label.
UseArgs == {<<"A", None>>, <<"B", "20m">>, <<"Z", None>>}
\* Longest stored log of the registry specification.
MaxLogReg == 3
\* (label, description) arguments of define and of POST /api/antennas.
DefineArgs == {<<"A", "loop">>, <<"B", "vertical">>}
CreateArgs == DefineArgs \cup {<<"A", " ">>}
\* Most analyses of one comparison run.
MaxAnalyses == 3
\* Most decode records one analysis scans.
MaxRecords == 3
\* Most notes attached to one comparison.
MaxNotes == 2
\* Most lines the beacon sends during one configuration run.
MaxLines == 4
\* Most tokens of a decoded message.
MaxParts == 3
\* (label, band) arguments of use in the interleaved specification.
UseArgsConc == {<<"A", None>>}
\* Concurrent callers of the interleaved specification.
Procs == {1, 2}

VARIABLES
    log,        \* antenna_log.json: the stored event log
    antennas,   \* antennas.json: label -> description
    now,        \* the last reading of the wall clock
    lastOp,     \* the handler that returned last and what it reported
    pc,         \* per caller: where its handler stands
    req,        \* per caller: the request it serves
    buf,        \* per caller: the log copy it read and the entry it built
    fetch,      \* the fetch_spots call in progress, if any
    run,         \* one comparison run: its PSKReporter cache and its analyses
    calc,        \* the last report computation: what was computed, from what, the result
    cmp,         \* one analysis: its session, the decode records scanned, antenna_data
    art,         \* the comparison directory of one session and the analysis working on it
    ws          \* the beacon configuration run of wspr_band.py and its serial port

vars == <<log, antennas, now, lastOp, pc, req, buf, fetch, run, calc, cmp, art, ws>>

\* ------------------------------------------------------------------ events

\* An entry of the log, as cmd_start, cmd_stop, cmd_pause and cmd_resume build it.
Entry(ev, t) ==
    [event |-> ev, timestamp |-> t, antenna |-> None, band |-> None,
     description |-> None]

\* A use entry that carries no description.
UseEntry_no_description(label, band, t, reg) ==
    [event |-> "use", timestamp |-> t, antenna |-> label, band |-> band,
     description |-> None]

\* The entry cmd_use / api_use build: label, optional band, description snapshot.
UseEntry(label, band, t, reg) ==
    [event |-> "use", timestamp |-> t, antenna |-> label, band |-> band,
     description |-> reg[label]]

\* ------------------------------------------------------------------ get_session_status

status0 ==
    [active |-> FALSE, paused |-> FALSE, start_time |-> NoTime,
     current_antenna |-> None, current_antenna_since |-> NoTime,
     current_antenna_description |-> None]

\* get_session_status forgetting the antenna at a pause.
status_entry_pause_clears_antenna(st, e) ==
    CASE e.event = "start" ->
           [st EXCEPT !.active = TRUE, !.paused = FALSE,
                      !.start_time = e.timestamp, !.current_antenna = None]
      [] e.event = "stop" ->
           [st EXCEPT !.active = FALSE, !.current_antenna = None]
      [] e.event = "pause" -> [st EXCEPT !.paused = TRUE, !.current_antenna = None]
      [] e.event = "resume" -> [st EXCEPT !.paused = FALSE]
      [] e.event = "use" ->
           [st EXCEPT !.current_antenna = e.antenna,
                      !.current_antenna_since = e.timestamp,
                      !.current_antenna_description = e.description]
      [] OTHER -> st

\* One iteration of the loop of get_session_status.
status_entry(st, e) ==
    CASE e.event = "start" ->
           [st EXCEPT !.active = TRUE, !.paused = FALSE,
                      !.start_time = e.timestamp, !.current_antenna = None]
      [] e.event = "stop" ->
           [st EXCEPT !.active = FALSE, !.current_antenna = None]
      [] e.event = "pause" -> [st EXCEPT !.paused = TRUE]
      [] e.event = "resume" -> [st EXCEPT !.paused = FALSE]
      [] e.event = "use" ->
           [st EXCEPT !.current_antenna = e.antenna,
                      !.current_antenna_since = e.timestamp,
                      !.current_antenna_description = e.description]
      [] OTHER -> st

RECURSIVE status_replay(_, _)
status_replay(lg, n) ==
    IF n = 0 THEN status0 ELSE status_entry(status_replay(lg, n - 1), lg[n])

get_session_status(lg) == status_replay(lg, Len(lg))

\* ------------------------------------------------------------------ get_session_intervals

\* Python truth of "current_antenna and current_start".
Truthy(ant, start) == ant # None /\ ant # "" /\ start # NoTime

intervals0 ==
    [intervals |-> <<>>, session_start |-> NoTime, current_antenna |-> None,
     current_start |-> NoTime, current_band |-> None]

\* The interval appended by get_session_intervals, closed at time t.
interval_of(s, t) ==
    [antenna |-> s.current_antenna, start |-> s.current_start, end |-> t,
     band |-> s.current_band]

\* The intervals of s with the open one, if any, closed at t.
closed_at(s, t) ==
    IF Truthy(s.current_antenna, s.current_start)
    THEN Append(s.intervals, interval_of(s, t))
    ELSE s.intervals

\* get_session_intervals whose pause branch forgets to clear current_antenna.
intervals_entry_pause_keeps_antenna(s, e) ==
    CASE e.event = "start" ->
           [s EXCEPT !.session_start = e.timestamp, !.current_antenna = None]
      [] e.event = "stop" ->
           [s EXCEPT !.intervals = closed_at(s, e.timestamp),
                     !.current_antenna = None, !.session_start = NoTime]
      [] e.event = "pause" ->
           [s EXCEPT !.intervals = closed_at(s, e.timestamp)]
      [] e.event = "use" ->
           [s EXCEPT !.intervals = closed_at(s, e.timestamp),
                     !.current_antenna = e.antenna,
                     !.current_start = e.timestamp,
                     !.current_band = e.band]
      [] OTHER -> s

\* One iteration of the loop of get_session_intervals.
intervals_entry(s, e) ==
    CASE e.event = "start" ->
           [s EXCEPT !.session_start = e.timestamp, !.current_antenna = None]
      [] e.event = "stop" ->
           [s EXCEPT !.intervals = closed_at(s, e.timestamp),
                     !.current_antenna = None, !.session_start = NoTime]
      [] e.event = "pause" ->
           [s EXCEPT !.intervals = closed_at(s, e.timestamp),
                     !.current_antenna = None]
      [] e.event = "use" ->
           [s EXCEPT !.intervals = closed_at(s, e.timestamp),
                     !.current_antenna = e.antenna,
                     !.current_start = e.timestamp,
                     !.current_band = e.band]
      [] OTHER -> s

RECURSIVE intervals_replay(_, _)
intervals_replay(lg, n) ==
    IF n = 0 THEN intervals0
    ELSE intervals_entry(intervals_replay(lg, n - 1), lg[n])

\* get_session_intervals() on the stored log lg when the clock reads t.
get_session_intervals(lg, t) ==
    LET s == intervals_replay(lg, Len(lg))
    IN  IF Truthy(s.current_antenna, s.current_start) /\ s.session_start # NoTime
        THEN Append(s.intervals, interval_of(s, t))
        ELSE s.intervals

\* ------------------------------------------------------------------ cmd_analyze

analyze0 ==
    [intervals |-> <<>>, session_start |-> NoTime, session_end |-> NoTime,
     current_antenna |-> None, current_start |-> NoTime, current_desc |-> None,
     current_band |-> None, paused |-> FALSE]

\* The interval appended by cmd_analyze, closed at time t.
analyze_interval_of(s, t) ==
    [antenna |-> s.current_antenna, description |-> s.current_desc,
     band |-> s.current_band, start |-> s.current_start, end |-> t]

analyze_closed_at(s, t) ==
    IF Truthy(s.current_antenna, s.current_start)
    THEN Append(s.intervals, analyze_interval_of(s, t))
    ELSE s.intervals

\* cmd_analyze taking a use made while paused to start at the resume.
analyze_entry_resume_restarts(s, e) ==
    CASE e.event = "start" ->
           [s EXCEPT !.session_start = e.timestamp, !.current_antenna = None,
                     !.current_band = None, !.paused = FALSE]
      [] e.event = "stop" ->
           [s EXCEPT !.intervals = IF ~s.paused
                                   THEN analyze_closed_at(s, e.timestamp)
                                   ELSE s.intervals,
                     !.session_end = e.timestamp,
                     !.current_antenna = None]
      [] e.event = "pause" ->
           [s EXCEPT !.intervals = analyze_closed_at(s, e.timestamp),
                     !.paused = TRUE,
                     !.current_antenna = None,
                     !.current_start = NoTime]
      [] e.event = "resume" ->
           [s EXCEPT !.paused = FALSE,
                     !.current_start = IF s.current_start # NoTime
                                       THEN e.timestamp ELSE NoTime]
      [] e.event = "use" ->
           [s EXCEPT !.session_start = IF s.session_start = NoTime
                                       THEN e.timestamp ELSE s.session_start,
                     !.intervals = analyze_closed_at(s, e.timestamp),
                     !.current_antenna = e.antenna,
                     !.current_start = e.timestamp,
                     !.current_desc = e.description,
                     !.current_band = e.band]
      [] OTHER -> s

\* cmd_analyze dropping the intervals of earlier sessions at a start.
analyze_entry_start_drops_intervals(s, e) ==
    CASE e.event = "start" ->
           [s EXCEPT !.session_start = e.timestamp, !.current_antenna = None,
                     !.current_band = None, !.paused = FALSE,
                     !.intervals = <<>>]
      [] e.event = "stop" ->
           [s EXCEPT !.intervals = IF ~s.paused
                                   THEN analyze_closed_at(s, e.timestamp)
                                   ELSE s.intervals,
                     !.session_end = e.timestamp,
                     !.current_antenna = None]
      [] e.event = "pause" ->
           [s EXCEPT !.intervals = analyze_closed_at(s, e.timestamp),
                     !.paused = TRUE,
                     !.current_antenna = None,
                     !.current_start = NoTime]
      [] e.event = "resume" -> [s EXCEPT !.paused = FALSE]
      [] e.event = "use" ->
           [s EXCEPT !.session_start = IF s.session_start = NoTime
                                       THEN e.timestamp ELSE s.session_start,
                     !.intervals = analyze_closed_at(s, e.timestamp),
                     !.current_antenna = e.antenna,
                     !.current_start = e.timestamp,
                     !.current_desc = e.description,
                     !.current_band = e.band]
      [] OTHER -> s

\* One iteration of the replay loop of cmd_analyze.
analyze_entry(s, e) ==
    CASE e.event = "start" ->
           [s EXCEPT !.session_start = e.timestamp, !.current_antenna = None,
                     !.current_band = None, !.paused = FALSE]
      [] e.event = "stop" ->
           [s EXCEPT !.intervals = IF ~s.paused
                                   THEN analyze_closed_at(s, e.timestamp)
                                   ELSE s.intervals,
                     !.session_end = e.timestamp,
                     !.current_antenna = None]
      [] e.event = "pause" ->
           [s EXCEPT !.intervals = analyze_closed_at(s, e.timestamp),
                     !.paused = TRUE,
                     !.current_antenna = None,
                     !.current_start = NoTime]
      [] e.event = "resume" -> [s EXCEPT !.paused = FALSE]
      [] e.event = "use" ->
           [s EXCEPT !.session_start = IF s.session_start = NoTime
                                       THEN e.timestamp ELSE s.session_start,
                     !.intervals = analyze_closed_at(s, e.timestamp),
                     !.current_antenna = e.antenna,
                     !.current_start = e.timestamp,
                     !.current_desc = e.description,
                     !.current_band = e.band]
      [] OTHER -> s

RECURSIVE analyze_replay(_, _)
analyze_replay(lg, n) ==
    IF n = 0 THEN analyze0
    ELSE analyze_entry(analyze_replay(lg, n - 1), lg[n])

\* The interval list cmd_analyze builds from lg when the clock reads t.
analyze_intervals(lg, t) ==
    LET s == analyze_replay(lg, Len(lg))
    IN  IF /\ Truthy(s.current_antenna, s.current_start)
           /\ s.session_end = NoTime
           /\ ~s.paused
        THEN Append(s.intervals, analyze_interval_of(s, t))
        ELSE s.intervals

\* The join with the end of an interval taken as part of it.
RECURSIVE first_match_closed_end(_, _, _)
first_match_closed_end(ivs, t, i) ==
    IF i > Len(ivs) THEN 0
    ELSE IF ivs[i].start <= t /\ t <= ivs[i].end THEN i
    ELSE first_match_closed_end(ivs, t, i + 1)

\* The join rule of cmd_analyze and get_live_preview: the index of the first
\* interval with start <= t < end, 0 when the record matches none.
RECURSIVE first_match(_, _, _)
first_match(ivs, t, i) ==
    IF i > Len(ivs) THEN 0
    ELSE IF ivs[i].start <= t /\ t < ivs[i].end THEN i
    ELSE first_match(ivs, t, i + 1)

interval_for(ivs, t) == first_match(ivs, t, 1)

\* ------------------------------------------------------------------ validation

\* cmd_start with the timestamp comparison left out of has_stop.
cmd_start_active_any_stop(lg) ==
    \E i \in 1..Len(lg) :
        /\ lg[i].event = "start"
        /\ ~\E j \in 1..Len(lg) : lg[j].event = "stop"

\* The scan of cmd_start: some start entry has no stop entry with a greater
\* timestamp.  (Timestamps are UTC isoformat strings of one offset, whose string
\* order is their time order.)
cmd_start_active(lg) ==
    \E i \in 1..Len(lg) :
        /\ lg[i].event = "start"
        /\ ~\E j \in 1..Len(lg) :
               lg[j].event = "stop" /\ lg[j].timestamp > lg[i].timestamp

\* One iteration of the session_active loop of cmd_stop.
stop_entry(active, e) ==
    CASE e.event = "start" -> TRUE
      [] e.event = "stop" -> FALSE
      [] OTHER -> active

RECURSIVE stop_replay(_, _)
stop_replay(lg, n) ==
    IF n = 0 THEN FALSE ELSE stop_entry(stop_replay(lg, n - 1), lg[n])

\* session_active as cmd_stop computes it.
cmd_stop_active(lg) == stop_replay(lg, Len(lg))

\* One iteration of the session_active / session_paused loop that cmd_use,
\* cmd_pause and cmd_resume each run.
flags_entry(f, e) ==
    CASE e.event = "start" -> [active |-> TRUE, paused |-> FALSE]
      [] e.event = "stop" -> [f EXCEPT !.active = FALSE]
      [] e.event = "pause" -> [f EXCEPT !.paused = TRUE]
      [] e.event = "resume" -> [f EXCEPT !.paused = FALSE]
      [] OTHER -> f

RECURSIVE flags_replay(_, _)
flags_replay(lg, n) ==
    IF n = 0 THEN [active |-> FALSE, paused |-> FALSE]
    ELSE flags_entry(flags_replay(lg, n - 1), lg[n])

session_flags(lg) == flags_replay(lg, Len(lg))

\* The checks of the command line handlers: TRUE when the handler goes on to
\* append its event to the copy lg of the log it has read.
cmd_start_ok(lg) == ~cmd_start_active(lg)

cmd_stop_ok(lg) == cmd_stop_active(lg)

cmd_use_ok(lg, reg, label) ==
    /\ label \in DOMAIN reg
    /\ session_flags(lg).active

\* cmd_pause without its "Session already paused" exit.
cmd_pause_ok_no_paused_check(lg) == session_flags(lg).active

cmd_pause_ok(lg) ==
    /\ session_flags(lg).active
    /\ ~session_flags(lg).paused

cmd_resume_ok(lg) ==
    /\ session_flags(lg).active
    /\ session_flags(lg).paused

\* The checks of the web handlers, made on the status that get_session_status
\* derived from the log lg it read.
api_start_ok(lg) == ~get_session_status(lg).active

api_stop_ok(lg) == get_session_status(lg).active

api_pause_ok(lg) ==
    /\ get_session_status(lg).active
    /\ ~get_session_status(lg).paused

api_resume_ok(lg) ==
    /\ get_session_status(lg).active
    /\ get_session_status(lg).paused

api_use_ok(lg, reg, label) ==
    /\ get_session_status(lg).active
    /\ label \in DOMAIN reg

\* ------------------------------------------------------------------ handlers

\* What a handler leaves behind: whether it reported success, and the log it
\* left in the file.  A rejected handler exits before it writes.
Rejected(lg) == [ok |-> FALSE, log |-> lg]
Accepted(lg, e) == [ok |-> TRUE, log |-> Append(lg, e)]

\* Each handler run alone on the stored log lg, its clock read returning t.
cmd_start(lg, t) ==
    IF cmd_start_ok(lg) THEN Accepted(lg, Entry("start", t)) ELSE Rejected(lg)

cmd_stop(lg, t) ==
    IF cmd_stop_ok(lg) THEN Accepted(lg, Entry("stop", t)) ELSE Rejected(lg)

\* cmd_use writing its entry before it looks the label up.
cmd_use_append_first(lg, reg, label, band, t) ==
    IF cmd_use_ok(lg, reg, label)
    THEN Accepted(lg, UseEntry(label, band, t, reg))
    ELSE [ok |-> FALSE,
          log |-> Append(lg, [Entry("use", t) EXCEPT !.antenna = label])]

cmd_use(lg, reg, label, band, t) ==
    IF cmd_use_ok(lg, reg, label)
    THEN Accepted(lg, UseEntry(label, band, t, reg))
    ELSE Rejected(lg)

cmd_pause(lg, t) ==
    IF cmd_pause_ok(lg) THEN Accepted(lg, Entry("pause", t)) ELSE Rejected(lg)

cmd_resume(lg, t) ==
    IF cmd_resume_ok(lg) THEN Accepted(lg, Entry("resume", t)) ELSE Rejected(lg)

api_start(lg, t) ==
    IF api_start_ok(lg) THEN Accepted(lg, Entry("start", t)) ELSE Rejected(lg)

api_stop(lg, t) ==
    IF api_stop_ok(lg) THEN Accepted(lg, Entry("stop", t)) ELSE Rejected(lg)

api_pause(lg, t) ==
    IF api_pause_ok(lg) THEN Accepted(lg, Entry("pause", t)) ELSE Rejected(lg)

api_resume(lg, t) ==
    IF api_resume_ok(lg) THEN Accepted(lg, Entry("resume", t)) ELSE Rejected(lg)

api_use(lg, reg, label, band, t) ==
    IF api_use_ok(lg, reg, label)
    THEN Accepted(lg, UseEntry(label, band, t, reg))
    ELSE Rejected(lg)

\* ------------------------------------------------------------------ state

\* antennas.json after "define A ..." and "define B ...".
AntennasInit == [l \in {"A", "B"} |-> IF l = "A" THEN "dipole" ELSE "vertical"]

NoOp == [op |-> None, ok |-> TRUE]
NoReq == [op |-> None, src |-> None, antenna |-> None, band |-> None,
          seen |-> [active |-> FALSE, paused |-> FALSE]]
NoBuf == [log |-> <<>>, entry |-> Entry(None, NoTime)]
\* No fetch_spots call is in progress.
NoFetch == [pc |-> "idle", pkg |-> FALSE, answers |-> <<>>, sleeps |-> <<>>,
            result |-> None]
\* A comparison run that no analysis has reached yet, without a cache file.
NoRun == [pc |-> "idle", cache |-> FALSE, age |-> 0, n |-> 0, queries |-> 0,
          tx |-> None]
\* No analysis has loaded its session.
NoCmp == [pc |-> "idle", labels |-> <<>>, t |-> 0, n |-> 0,
          all_antennas |-> <<>>, data |-> {}]
\* wspr_band.py has not opened the serial port: no line read, nothing written.
NoWs == [pc |-> "start", open |-> FALSE, closed |-> 0, rx |-> <<>>, tx |-> <<>>,
         success |-> FALSE, exit |-> None]
\* No comparison directory exists and no analysis is running.
NoSession == [exists |-> FALSE, my_grid |-> <<>>, loc |-> <<>>, notes |-> <<>>]
NoArt == [pc |-> "idle", dir |-> FALSE, session |-> NoSession, files |-> {},
          outcome |-> None, grid |-> <<>>, all_txt |-> FALSE]
\* Nothing of the report has been computed.
NoCalc == [op |-> None, arg |-> <<>>, out |-> None]

Init ==
    /\ log = <<>>
    /\ antennas = AntennasInit
    /\ now = 0
    /\ lastOp = NoOp
    /\ pc = [p \in Procs |-> "idle"]
    /\ req = [p \in Procs |-> NoReq]
    /\ buf = [p \in Procs |-> NoBuf]
    /\ fetch = NoFetch
    /\ ws = NoWs
    /\ art = NoArt
    /\ cmp = NoCmp
    /\ calc = NoCalc
    /\ run = NoRun

\* datetime.now(): the clock never runs backwards; two reads may coincide.
Clock == {t \in now..(now + 1) : t <= MaxTime}
ClockConc == {t \in now..(now + 1) : t <= MaxTimeConc}

\* ------------------------------------------------------------------ one caller at a time

\* A handler that runs from its read of the log to its return with no other
\* writer in between.
Return(op, out, t) ==
    /\ out.ok => Len(log) < MaxLog
    /\ log' = out.log
    /\ now' = IF out.ok THEN t ELSE now
    /\ lastOp' = [op |-> op, ok |-> out.ok]
    /\ UNCHANGED <<antennas, pc, req, buf, fetch, run, calc, cmp, art, ws>>

CmdStart == \E t \in Clock : Return("start", cmd_start(log, t), t)
CmdStop == \E t \in Clock : Return("stop", cmd_stop(log, t), t)
CmdPause == \E t \in Clock : Return("pause", cmd_pause(log, t), t)
CmdResume == \E t \in Clock : Return("resume", cmd_resume(log, t), t)
CmdUse ==
    \E t \in Clock, a \in UseArgs :
        Return("use", cmd_use(log, antennas, a[1], a[2], t), t)

ApiStart == \E t \in Clock : Return("start", api_start(log, t), t)
ApiStop == \E t \in Clock : Return("stop", api_stop(log, t), t)
ApiPause == \E t \in Clock : Return("pause", api_pause(log, t), t)
ApiResume == \E t \in Clock : Return("resume", api_resume(log, t), t)
ApiUse ==
    \E t \in Clock, a \in UseArgs :
        Return("use", api_use(log, antennas, a[1], a[2], t), t)

\* A clear that refuses while the session is active.
CmdClear_refuses_active ==
    /\ log' = IF cmd_start_active(log) THEN log ELSE <<>>
    /\ lastOp' = [op |-> "clear", ok |-> ~cmd_start_active(log)]
    /\ UNCHANGED <<antennas, now, pc, req, buf, fetch, run, calc, cmp, art, ws>>

\* cmd_clear and api_clear: one write of the empty list.
CmdClear ==
    /\ log' = <<>>
    /\ lastOp' = [op |-> "clear", ok |-> TRUE]
    /\ UNCHANGED <<antennas, now, pc, req, buf, fetch, run, calc, cmp, art, ws>>

ApiClear ==
    /\ log' = <<>>
    /\ lastOp' = [op |-> "clear", ok |-> TRUE]
    /\ UNCHANGED <<antennas, now, pc, req, buf, fetch, run, calc, cmp, art, ws>>

Next ==
    \/ CmdStart \/ CmdStop \/ CmdPause \/ CmdResume \/ CmdUse \/ CmdClear
    \/ ApiStart \/ ApiStop \/ ApiPause \/ ApiResume \/ ApiUse \/ ApiClear

Spec == Init /\ [][Next]_vars

\* ------------------------------------------------------------------ interleaved callers

\* The session operations a caller may request.
Ops == {"start", "stop", "pause", "resume", "use"}

\* The check each command line handler makes on the copy of the log it read.
cli_ok(op, lg, reg, label) ==
    CASE op = "start" -> cmd_start_ok(lg)
      [] op = "stop" -> cmd_stop_ok(lg)
      [] op = "pause" -> cmd_pause_ok(lg)
      [] op = "resume" -> cmd_resume_ok(lg)
      [] op = "use" -> cmd_use_ok(lg, reg, label)

\* The check each web handler makes on the status it derived.
web_ok(op, lg, reg, label) ==
    CASE op = "start" -> api_start_ok(lg)
      [] op = "stop" -> api_stop_ok(lg)
      [] op = "pause" -> api_pause_ok(lg)
      [] op = "resume" -> api_resume_ok(lg)
      [] op = "use" -> api_use_ok(lg, reg, label)

\* The entry a handler builds once its check has passed.
NewEntry(r, t, reg) ==
    IF r.op = "use" THEN UseEntry(r.antenna, r.band, t, reg) ELSE Entry(r.op, t)

\* The (label, band) arguments of a request: only use carries any.
ArgsOf(op) == IF op = "use" THEN UseArgsConc ELSE {<<None, None>>}

\* A command line handler starts: load_json, then the check on that copy.  It
\* exits at once when the check fails, and otherwise holds the copy.
CliCall(p) ==
    /\ pc[p] = "idle"
    /\ Len(log) < MaxLogConc
    /\ \E op \in Ops : \E a \in ArgsOf(op) :
         IF cli_ok(op, log, antennas, a[1])
         THEN /\ pc' = [pc EXCEPT ![p] = "loaded"]
              /\ req' = [req EXCEPT ![p] =
                           [NoReq EXCEPT !.op = op, !.src = "cli",
                                         !.antenna = a[1], !.band = a[2]]]
              /\ buf' = [buf EXCEPT ![p] = [NoBuf EXCEPT !.log = log]]
              /\ UNCHANGED <<log, antennas, now, lastOp, fetch, run, calc, cmp, art, ws>>
         ELSE UNCHANGED vars

\* A web handler starts: get_session_status reads the log and the handler
\* checks the derived status; the log it appends to is read later.
WebCall(p) ==
    /\ pc[p] = "idle"
    /\ Len(log) < MaxLogConc
    /\ \E op \in Ops : \E a \in ArgsOf(op) :
         IF web_ok(op, log, antennas, a[1])
         THEN /\ pc' = [pc EXCEPT ![p] = "checked"]
              /\ req' = [req EXCEPT ![p] =
                           [op |-> op, src |-> "web", antenna |-> a[1],
                            band |-> a[2],
                            seen |-> [active |-> get_session_status(log).active,
                                      paused |-> get_session_status(log).paused]]]
              /\ UNCHANGED <<log, antennas, now, lastOp, buf, fetch, run, calc, cmp, art, ws>>
         ELSE UNCHANGED vars

\* The web handler's own load_json, after its check.
WebLoad(p) ==
    /\ pc[p] = "checked"
    /\ Len(log) < MaxLogConc
    /\ pc' = [pc EXCEPT ![p] = "loaded"]
    /\ buf' = [buf EXCEPT ![p] = [NoBuf EXCEPT !.log = log]]
    /\ UNCHANGED <<log, antennas, now, lastOp, req, fetch, run, calc, cmp, art, ws>>

\* The handler reads the clock and builds its entry.
Stamp(p) ==
    /\ pc[p] = "loaded"
    /\ \E t \in ClockConc :
         /\ now' = t
         /\ buf' = [buf EXCEPT ![p].entry = NewEntry(req[p], t, antennas)]
    /\ pc' = [pc EXCEPT ![p] = "stamped"]
    /\ UNCHANGED <<log, antennas, lastOp, req, fetch, run, calc, cmp, art, ws>>

\* The entry appended to the file as it is at the time of the save.
Save_appends_to_file(p) ==
    /\ pc[p] = "stamped"
    /\ log' = Append(log, buf[p].entry)
    /\ pc' = [pc EXCEPT ![p] = "idle"]
    /\ req' = [req EXCEPT ![p] = NoReq]
    /\ buf' = [buf EXCEPT ![p] = NoBuf]
    /\ UNCHANGED <<antennas, now, lastOp, fetch, run, calc, cmp, art, ws>>

\* log.append(entry); save_json(ANTENNA_LOG_FILE, log): the file is replaced by
\* the handler's copy plus its entry, and the handler reports success.
Save(p) ==
    /\ pc[p] = "stamped"
    /\ log' = Append(buf[p].log, buf[p].entry)
    /\ pc' = [pc EXCEPT ![p] = "idle"]
    /\ req' = [req EXCEPT ![p] = NoReq]
    /\ buf' = [buf EXCEPT ![p] = NoBuf]
    /\ UNCHANGED <<antennas, now, lastOp, fetch, run, calc, cmp, art, ws>>

NextConc ==
    \/ \E p \in Procs : CliCall(p)
    \/ \E p \in Procs : WebCall(p)
    \/ \E p \in Procs : WebLoad(p)
    \/ \E p \in Procs : Stamp(p)
    \/ \E p \in Procs : Save(p)

SpecConc == Init /\ [][NextConc]_vars

\* Command line callers only.
NextCli ==
    \/ \E p \in Procs : CliCall(p)
    \/ \E p \in Procs : Stamp(p)
    \/ \E p \in Procs : Save(p)

SpecCli == Init /\ [][NextCli]_vars

\* ------------------------------------------------------------------ registry

\* str.strip() on the descriptions the requests carry.
strip(d) == IF d = " " THEN "" ELSE d

\* cmd_define: antennas[label] = {description, ...}, for a new or a known label.
cmd_define(reg, label, d) ==
    [l \in DOMAIN reg \cup {label} |-> IF l = label THEN d ELSE reg[l]]

\* api_antennas_create: 400 when the stripped label or description is empty.
api_antennas_create(reg, label, d) ==
    IF strip(label) = "" \/ strip(d) = ""
    THEN [ok |-> FALSE, antennas |-> reg]
    ELSE [ok |-> TRUE, antennas |-> cmd_define(reg, strip(label), strip(d))]

\* api_antennas_delete: 404 for an unknown label, else del antennas[label].
api_antennas_delete(reg, label) ==
    IF label \notin DOMAIN reg
    THEN [ok |-> FALSE, antennas |-> reg]
    ELSE [ok |-> TRUE, antennas |-> [l \in DOMAIN reg \ {label} |-> reg[l]]]

CmdDefine ==
    \E a \in DefineArgs :
        /\ antennas' = cmd_define(antennas, a[1], a[2])
        /\ lastOp' = [op |-> "define", ok |-> TRUE]
        /\ UNCHANGED <<log, now, pc, req, buf, fetch, run, calc, cmp, art, ws>>

ApiAntennasCreate ==
    \E a \in CreateArgs :
        LET out == api_antennas_create(antennas, a[1], a[2])
        IN  /\ antennas' = out.antennas
            /\ lastOp' = [op |-> "define", ok |-> out.ok]
            /\ UNCHANGED <<log, now, pc, req, buf, fetch, run, calc, cmp, art, ws>>

ApiAntennasDelete ==
    \E l \in {"A", "B"} :
        LET out == api_antennas_delete(antennas, l)
        IN  /\ antennas' = out.antennas
            /\ lastOp' = [op |-> "delete", ok |-> out.ok]
            /\ UNCHANGED <<log, now, pc, req, buf, fetch, run, calc, cmp, art, ws>>

\* The session handlers, one caller at a time, under the log bound of this
\* specification.
ReturnReg(op, out, t) ==
    /\ out.ok => Len(log) < MaxLogReg
    /\ log' = out.log
    /\ now' = IF out.ok THEN t ELSE now
    /\ lastOp' = [op |-> op, ok |-> out.ok]
    /\ UNCHANGED <<antennas, pc, req, buf, fetch, run, calc, cmp, art, ws>>

StartReg == \E t \in Clock : ReturnReg("start", cmd_start(log, t), t)
StopReg == \E t \in Clock : ReturnReg("stop", cmd_stop(log, t), t)
PauseReg == \E t \in Clock : ReturnReg("pause", cmd_pause(log, t), t)
ResumeReg == \E t \in Clock : ReturnReg("resume", cmd_resume(log, t), t)
UseReg ==
    \E t \in Clock, a \in UseArgs :
        ReturnReg("use", cmd_use(log, antennas, a[1], a[2], t), t)
ApiUseReg ==
    \E t \in Clock, a \in UseArgs :
        ReturnReg("use", api_use(log, antennas, a[1], a[2], t), t)

NextReg ==
    \/ CmdDefine \/ ApiAntennasCreate \/ ApiAntennasDelete
    \/ StartReg \/ StopReg \/ PauseReg \/ ResumeReg \/ UseReg \/ ApiUseReg

SpecReg == Init /\ [][NextReg]_vars

\* ------------------------------------------------------------------ fetch_spots

\* for attempt in range(3)
MaxAttempts == 3

\* What one request to PSKReporter can meet: a response with reception
\* reports, a response with none, HTTP 429, another HTTP error status, a
\* transport failure (URLError, timeout), a body that does not parse.
Answers == {"ok_spots", "ok_empty", "429", "http_error", "transport", "unparsable"}

RECURSIVE Pow2(_)
Pow2(n) == IF n = 0 THEN 1 ELSE 2 * Pow2(n - 1)

\* except Exception: sleep one second and go on, or give up after the last
\* attempt with the empty list.
on_exception(a) ==
    IF a < 2 THEN [kind |-> "retry", result |-> None, sleep |-> 1]
    ELSE [kind |-> "return", result |-> "empty", sleep |-> 0]

\* except HTTPError: a 429 on the first two attempts sleeps 2 ** attempt and
\* goes on; everything else is raised again, out of the try statement.
on_http_error(a, code429) ==
    IF code429 /\ a < 2
    THEN [kind |-> "retry", result |-> None, sleep |-> Pow2(a)]
    ELSE [kind |-> "raise", result |-> "raised", sleep |-> 0]

\* One pass of the loop body, attempt a (from 0), the service answering ans.
\* pkg: the module was imported as lib.pskreporter; as the top-level module
\* pskreporter its "from .band_utils import" raises ImportError at the first
\* reception report.
attempt_outcome(pkg, a, ans) ==
    CASE ans = "ok_empty" -> [kind |-> "return", result |-> "empty", sleep |-> 0]
      [] ans = "ok_spots" ->
           IF pkg THEN [kind |-> "return", result |-> "spots", sleep |-> 0]
           ELSE on_exception(a)
      [] ans = "429" -> on_http_error(a, TRUE)
      [] ans = "http_error" -> on_http_error(a, FALSE)
      [] OTHER -> on_exception(a)

\* A caller enters fetch_spots, in either import context.
FetchCall ==
    /\ fetch.pc = "idle"
    /\ run.pc = "idle"
    /\ \E pkg \in BOOLEAN :
           fetch' = [NoFetch EXCEPT !.pc = "request", !.pkg = pkg]
    /\ UNCHANGED <<log, antennas, now, lastOp, pc, req, buf, run, calc, cmp, art, ws>>

\* One pass of the loop: the request, its answer, and the handler's sleep.
FetchAttempt ==
    /\ fetch.pc = "request"
    /\ \E ans \in Answers :
           LET a == Len(fetch.answers)
               o == attempt_outcome(fetch.pkg, a, ans)
               more == o.kind = "retry" /\ a + 1 < MaxAttempts
           IN  fetch' = [fetch EXCEPT
                   !.answers = Append(@, ans),
                   !.sleeps = IF o.kind = "retry" THEN Append(@, o.sleep) ELSE @,
                   !.pc = IF more THEN "request" ELSE "done",
                   !.result = IF more THEN None
                              ELSE IF o.kind = "retry" THEN "empty"
                              ELSE o.result]
    /\ UNCHANGED <<log, antennas, now, lastOp, pc, req, buf, run, calc, cmp, art, ws>>

\* The caller has the list, or the exception, in hand.
FetchReturn ==
    /\ fetch.pc = "done"
    /\ run.pc = "idle"
    /\ fetch' = NoFetch
    /\ UNCHANGED <<log, antennas, now, lastOp, pc, req, buf, run, calc, cmp, art, ws>>

NextFetch == FetchCall \/ FetchAttempt \/ FetchReturn

SpecFetch == Init /\ [][NextFetch]_vars

\* ------------------------------------------------------------------ cmd_analyze: TX data

\* (now - session_start).total_seconds() > 86400
LookbackSeconds == 86400

\* Seconds from the session start to an analysis: none, the limit, one more.
Ages == {0, LookbackSeconds, LookbackSeconds + 1}

\* antenna.py puts src/lib on sys.path and imports "pskreporter" as a
\* top-level module, not as lib.pskreporter.
AntennaImportsAsPackage == FALSE

\* The age test with the limit itself counted as too old.
session_too_old_at_limit(age) == age >= LookbackSeconds

session_too_old(age) == age > LookbackSeconds

\* Where the TX section takes its spots from: nowhere (it prints the
\* "unavailable" notice), the cache file, or a query of PSKReporter.
tx_source(age, cache) ==
    IF session_too_old(age) /\ ~cache THEN "skipped"
    ELSE IF cache THEN "cache"
    ELSE IF ~session_too_old(age) THEN "fetch"
    ELSE "empty"

\* An analysis reaches its TX section: it skips it, loads the cache, or
\* calls fetch_pskreporter_spots, which calls fetch_spots.
AnalyzeTx ==
    /\ run.pc = "idle"
    /\ fetch.pc = "idle"
    /\ run.n < MaxAnalyses
    /\ \E age \in Ages :
           /\ age >= run.age
           /\ LET src == tx_source(age, run.cache)
              IN  IF src = "fetch"
                  THEN /\ run' = [run EXCEPT !.pc = "fetching", !.age = age,
                                             !.n = @ + 1, !.queries = @ + 1,
                                             !.tx = src]
                       /\ fetch' = [NoFetch EXCEPT
                                        !.pc = "request",
                                        !.pkg = AntennaImportsAsPackage]
                  ELSE /\ run' = [run EXCEPT !.age = age, !.n = @ + 1,
                                             !.tx = src]
                       /\ fetch' = fetch
    /\ UNCHANGED <<log, antennas, now, lastOp, pc, req, buf, calc, cmp, art, ws>>

\* fetch_spots is back: its exception ends the analysis; its list is cached
\* if it is not empty ("Cache the results if we got any").
AnalyzeFetched ==
    /\ run.pc = "fetching"
    /\ fetch.pc = "done"
    /\ run' = [run EXCEPT
                  !.pc = "idle",
                  !.cache = run.cache \/ fetch.result = "spots",
                  !.tx = IF fetch.result = "raised" THEN "crashed"
                         ELSE "fetched"]
    /\ fetch' = NoFetch
    /\ UNCHANGED <<log, antennas, now, lastOp, pc, req, buf, calc, cmp, art, ws>>

\* The run directory outlives the process: pskreporter_cache.json may be
\* there when the first analysis of this model runs.
InitCache ==
    /\ log = <<>>
    /\ antennas = AntennasInit
    /\ now = 0
    /\ lastOp = NoOp
    /\ pc = [p \in Procs |-> "idle"]
    /\ req = [p \in Procs |-> NoReq]
    /\ buf = [p \in Procs |-> NoBuf]
    /\ fetch = NoFetch
    /\ ws = NoWs
    /\ art = NoArt
    /\ cmp = NoCmp
    /\ calc = NoCalc
    /\ \E c \in BOOLEAN : run = [NoRun EXCEPT !.cache = c]

NextCache == AnalyzeTx \/ FetchAttempt \/ AnalyzeFetched

SpecCache == InitCache /\ [][NextCache]_vars

\* ------------------------------------------------------------------ cmd_analyze: RX comparison

\* The antennas selected, in order, by the sessions this specification
\* analyses; the i-th use is stamped i - 1, the analysis runs at Len(labels).
Sessions == {<<"A", "B">>, <<"A", "B", "A">>, <<"A", "B", "C">>}

\* The stored log of the session that selects labels: start, then the uses.
RECURSIVE session_log(_, _)
session_log(labels, n) ==
    IF n = 0 THEN <<Entry("start", 0)>>
    ELSE Append(session_log(labels, n - 1),
                UseEntry(labels[n], None, n - 1, [l \in {"A", "B", "C"} |-> l]))

\* The intervals cmd_analyze builds for that session.
session_intervals(labels) ==
    analyze_intervals(session_log(labels, Len(labels)), Len(labels))

\* Bands and callsigns of the decode records.
Bands == {"20m", "40m"}
Calls == {"K1", "K2"}

Range(f) == {f[i] : i \in DOMAIN f}

\* set(antenna_data[ant][band].keys()), antenna_data held as the set of
\* (antenna, band, callsign) with at least one record.
calls_by_antenna(data, ant, band) == {x[3] : x \in {y \in data : y[1] = ant /\ y[2] = band}}

\* all_bands: the bands with a record of any antenna.
all_bands(data) == {x[2] : x \in data}

\* set.intersection(*calls_by_antenna.values()) over all_antennas, the keys of
\* antenna_data in the order their first record was scanned.
common_calls(all, data, band) ==
    {c \in Calls : \A i \in 1..Len(all) : c \in calls_by_antenna(data, all[i], band)}

\* The RX comparison of one band: nothing but a notice when no callsign is
\* common, else SNR averages against the baseline all_antennas[0].
rx_band(all, data, band) ==
    IF common_calls(all, data, band) = {}
    THEN [kind |-> "no_common", baseline |-> None, common |-> {}]
    ELSE [kind |-> "snr", baseline |-> all[1],
          common |-> common_calls(all, data, band)]

\* cmd_analyze has loaded the log and built its intervals.
BuildIntervals ==
    /\ cmp.pc = "idle"
    /\ \E ls \in Sessions : cmp' = [NoCmp EXCEPT !.pc = "scan", !.labels = ls]
    /\ UNCHANGED <<log, antennas, now, lastOp, pc, req, buf, fetch, run, calc, art, ws>>

\* The scan of ALL.TXT meets its next record, records coming in time order:
\* the join gives its antenna, or none and the record is dropped.
ScanRecord ==
    /\ cmp.pc = "scan"
    /\ cmp.n < MaxRecords
    /\ \E t \in cmp.t..Len(cmp.labels), band \in Bands, call \in Calls :
           LET ivs == session_intervals(cmp.labels)
               idx == interval_for(ivs, t)
               ant == ivs[idx].antenna
           IN  IF idx = 0
               THEN cmp' = [cmp EXCEPT !.t = t, !.n = @ + 1]
               ELSE cmp' = [cmp EXCEPT
                       !.t = t, !.n = @ + 1,
                       !.data = @ \cup {<<ant, band, call>>},
                       !.all_antennas = IF ant \in Range(@) THEN @
                                        ELSE Append(@, ant)]
    /\ UNCHANGED <<log, antennas, now, lastOp, pc, req, buf, fetch, run, calc, art, ws>>

\* The end of the file: the comparison is reported, or the analysis returns
\* for lack of two antennas with data.
Compare ==
    /\ cmp.pc = "scan"
    /\ cmp' = [cmp EXCEPT !.pc = IF Len(cmp.all_antennas) < 2
                                 THEN "not_enough" ELSE "reported"]
    /\ UNCHANGED <<log, antennas, now, lastOp, pc, req, buf, fetch, run, calc, art, ws>>

NextCompare == BuildIntervals \/ ScanRecord \/ Compare

SpecCompare == Init /\ [][NextCompare]_vars

\* ------------------------------------------------------------------ cmd_analyze: report arithmetic

\* sectors = ["N", "NE", "E", "SE", "S", "SW", "W", "NW"]
sectors == <<"N", "NE", "E", "SE", "S", "SW", "W", "NW">>

\* round(n / d) for n >= 0, d > 0 as Python 3 rounds: to the nearest integer,
\* and to the even one of the two when n / d lies exactly between them.
round(n, d) ==
    LET q == n \div d
        r == n % d
    IN  IF 2 * r < d THEN q
        ELSE IF 2 * r > d THEN q + 1
        ELSE IF q % 2 = 0 THEN q ELSE q + 1

\* bearing_to_sector of cmd_analyze and cmd_tod, the bearing given in half
\* degrees (b2 = 2 * bearing): sectors[round(bearing / 45) % 8].
bearing_to_sector(b2) == sectors[(round(b2, 90) % 8) + 1]

\* Bearings from 0 to 360 degrees in steps of half a degree.
Bearings == 0..720

CalcSector ==
    \E b2 \in Bearings :
        /\ calc' = [op |-> "sector", arg |-> <<b2>>, out |-> bearing_to_sector(b2)]
        /\ UNCHANGED <<log, antennas, now, lastOp, pc, req, buf, fetch, run, cmp, art, ws>>

\* SNR deltas as fractions n / d of a dB: a difference of two averages.
Deltas == {<<n, d>> \in (-7..7) \X (1..3) : TRUE}

\* The verdict with the thresholds themselves counted as better and worse.
snr_verdict_inclusive(n, d) ==
    IF n >= d THEN "better" ELSE IF n <= -d THEN "worse" ELSE "similar"

\* The RX and TX verdict of the summary for delta = n / d dB (d > 0):
\* delta > 1, delta < -1, else similar.
snr_verdict(n, d) ==
    IF n > d THEN "better" ELSE IF n < -d THEN "worse" ELSE "similar"

\* Who the recommendation's tally credits for delta = n / d dB.
snr_win(n, d) ==
    IF n > d THEN "ant" ELSE IF n < -d THEN "baseline" ELSE None

CalcSnr ==
    \E x \in Deltas :
        /\ calc' = [op |-> "snr", arg |-> x,
                    out |-> <<snr_verdict(x[1], x[2]), snr_win(x[1], x[2])>>]
        /\ UNCHANGED <<log, antennas, now, lastOp, pc, req, buf, fetch, run, cmp, art, ws>>

\* Numbers of distinct stations that reported an antenna on one band.
Reaches == 0..12

Max(x, y) == IF x >= y THEN x ELSE y
Abs(x) == IF x >= 0 THEN x ELSE -x

\* summary_scores[ant][band]['tx_reach_delta'] as the summary reads it, for a
\* band with no common stations, antenna reach a and baseline reach b, the
\* baseline having TX spots on some band: the TX section records a - b only
\* for an antenna with spots on this band, and the summary reads 0 otherwise.
tx_reach_delta(a, b) == IF a = 0 THEN 0 ELSE a - b

\* The reach verdict of the summary: none when neither reach is positive,
\* else a winner when the delta has a sign and pct_diff > 0.2.
reach_verdict(a, b, delta) ==
    IF ~(a > 0 \/ b > 0) THEN None
    ELSE IF delta > 0 /\ 5 * Abs(delta) > Max(Max(a, b), 1) THEN "ant"
    ELSE IF delta < 0 /\ 5 * Abs(delta) > Max(Max(a, b), 1) THEN "baseline"
    ELSE "similar"

\* The reach branch of the recommendation's tally.
reach_win(a, b, delta) ==
    IF delta > 0 /\ 5 * Abs(delta) > Max(Max(a, b), 1) THEN "ant"
    ELSE IF delta < 0 /\ 5 * Abs(delta) > Max(Max(a, b), 1) THEN "baseline"
    ELSE None

CalcReach ==
    \E a \in Reaches, b \in Reaches :
        /\ LET delta == tx_reach_delta(a, b)
           IN  calc' = [op |-> "reach", arg |-> <<a, b>>,
                        out |-> <<reach_verdict(a, b, delta),
                                  reach_win(a, b, delta)>>]
        /\ UNCHANGED <<log, antennas, now, lastOp, pc, req, buf, fetch, run, cmp, art, ws>>

\* Win totals of two or three antennas, in the order of all_antennas.
Totals == [1..2 -> 0..3] \cup [1..3 -> 0..2]

\* max(total_wins, key=total_wins.get): the first antenna, in the order of
\* all_antennas, whose total no other exceeds.
best_ant(tw) ==
    CHOOSE i \in 1..Len(tw) :
        /\ \A j \in 1..Len(tw) : tw[j] <= tw[i]
        /\ \A j \in 1..(i - 1) : tw[j] < tw[i]

\* The recommendation: best_ant when it has a win at all, else the "too close
\* to call" message (0).
recommendation(tw) == IF tw[best_ant(tw)] > 0 THEN best_ant(tw) ELSE 0

CalcRecommendation ==
    \E tw \in Totals :
        /\ calc' = [op |-> "recommend", arg |-> tw, out |-> recommendation(tw)]
        /\ UNCHANGED <<log, antennas, now, lastOp, pc, req, buf, fetch, run, cmp, art, ws>>

\* Message tokens of a decode, and what the grid pattern
\* ^[A-R]{2}[0-9]{2}([A-X]{2})?$ (ignoring case) says of each: "RR73" has
\* the shape of a grid too.
Tokens == {"CQ", "K1ABC", "FN31", "EM12", "RR73"}
grid_re(part) == part \in {"FN31", "EM12", "RR73"}

\* parse_all_txt_line, the grid of message.split(): the loop assigns at every
\* matching token and has no break.
message_grid(parts) ==
    LET hits == {i \in 1..Len(parts) : grid_re(parts[i])}
    IN  IF hits = {} THEN None
        ELSE parts[CHOOSE i \in hits : \A j \in hits : j <= i]

CalcGrid ==
    \E n \in 1..MaxParts : \E parts \in [1..n -> Tokens] :
        /\ calc' = [op |-> "grid", arg |-> parts, out |-> message_grid(parts)]
        /\ UNCHANGED <<log, antennas, now, lastOp, pc, req, buf, fetch, run, cmp, art, ws>>

\* RX wins of one band: rx[i] is the rx_delta (tenths of a dB) of the i-th
\* antenna of other_ants; the result gives the wins of the baseline followed
\* by those of each other antenna.
rx_wins(rx) ==
    LET base == Cardinality({i \in 1..Len(rx) : snr_win(rx[i], 10) = "baseline"})
    IN  <<base>> \o [i \in 1..Len(rx) |-> IF snr_win(rx[i], 10) = "ant" THEN 1 ELSE 0]

CalcWins ==
    \E n \in 1..2 : \E rx \in [1..n -> {-20, 0, 20}] :
        /\ calc' = [op |-> "wins", arg |-> rx, out |-> rx_wins(rx)]
        /\ UNCHANGED <<log, antennas, now, lastOp, pc, req, buf, fetch, run, cmp, art, ws>>

\* tx_all_antennas: the antennas of all_antennas (those with RX decodes, in
\* scan order) that have a TX spot with an SNR; tx is the key set of
\* tx_antenna_data.
tx_all_antennas(all, tx) ==
    LET has_spots(a) == a \in tx
    IN  SelectSeq(all, has_spots)

\* The loop over tx_all_bands for one band: with no antenna in
\* tx_all_antennas, calls_by_antenna is empty, all() of nothing is True and
\* set.intersection() without an argument raises TypeError.
tx_by_band(all, tx) ==
    [raised |-> tx_all_antennas(all, tx) = <<>>,
     compared |-> tx_all_antennas(all, tx)]

\* The TX comparison is reached with two antennas or more in all_antennas and
\* total_spots > 0.
CalcTx ==
    \E all \in {<<"A", "B">>, <<"B", "A">>, <<"A", "B", "C">>} :
        \E tx \in (SUBSET {"A", "B", "C"}) \ {{}} :
            /\ calc' = [op |-> "tx", arg |-> <<all, tx>>, out |-> tx_by_band(all, tx)]
            /\ UNCHANGED <<log, antennas, now, lastOp, pc, req, buf, fetch, run, cmp, art, ws>>

NextCalc ==
    \/ CalcSector \/ CalcSnr \/ CalcReach \/ CalcRecommendation \/ CalcGrid
    \/ CalcWins \/ CalcTx

SpecCalc == Init /\ [][NextCalc]_vars

\* ------------------------------------------------------------------ cmd_analyze: artifacts

\* Grid arguments of analyze, as character sequences: the default, a four
\* character locator, one that is too short, and two strings that are no
\* locators (field letters beyond R; digits where letters belong).
Grids == {<<"C", "M", "9", "8", "k", "q">>, <<"C", "M", "9", "8">>,
          <<"C", "M", "9">>, <<"Z", "Z", "9", "9">>, <<"1", "2", "A", "B">>}

\* str.upper() and ord() on the characters of those arguments.
upper(c) == IF c = "k" THEN "K" ELSE IF c = "q" THEN "Q" ELSE c
ord(c) ==
    CASE c = "1" -> 49 [] c = "2" -> 50 [] c = "8" -> 56 [] c = "9" -> 57
      [] c = "A" -> 65 [] c = "B" -> 66 [] c = "C" -> 67 [] c = "K" -> 75
      [] c = "M" -> 77 [] c = "Q" -> 81 [] c = "Z" -> 90

\* grid_to_latlon, in units of 1/48 degree: None (here the empty tuple) for
\* fewer than 4 characters,
\* else plain arithmetic on the character codes (no range is tested, and for
\* 4 characters or more nothing in the try block can raise).
grid_to_latlon(grid) ==
    IF Len(grid) < 4 THEN <<>>
    ELSE LET g == [i \in 1..Len(grid) |-> upper(grid[i])]
             lon == ((ord(g[1]) - 65) * 20 - 180 + (ord(g[3]) - 48) * 2) * 48
             lat == ((ord(g[2]) - 65) * 10 - 90 + (ord(g[4]) - 48)) * 48
         IN  IF Len(g) >= 6
             THEN <<lat + (ord(g[6]) - 65) * 2 + 1, lon + (ord(g[5]) - 65) * 4 + 2>>
             ELSE <<lat + 24, lon + 48>>

\* session.json as cmd_analyze writes it: no "notes" key.
session_meta(grid) ==
    [exists |-> TRUE, my_grid |-> grid, loc |-> grid_to_latlon(grid), notes |-> <<>>]

\* cmd_analyze for a session with two intervals or more, up to session.json:
\* return on a missing ALL.TXT or a grid grid_to_latlon rejects, else mkdir
\* and save_json(session.json).
AnalyzeBegin ==
    /\ art.pc = "idle"
    /\ \E grid \in Grids, all_txt \in BOOLEAN :
           IF ~all_txt
           THEN art' = [art EXCEPT !.outcome = "no_all_txt",
                                   !.grid = grid, !.all_txt = all_txt]
           ELSE IF grid_to_latlon(grid) = <<>>
           THEN art' = [art EXCEPT !.outcome = "invalid_grid",
                                   !.grid = grid, !.all_txt = all_txt]
           ELSE art' = [art EXCEPT
                    !.pc = "scan", !.dir = TRUE,
                    !.session = session_meta(grid),
                    !.outcome = None, !.grid = grid, !.all_txt = all_txt]
    /\ UNCHANGED <<log, antennas, now, lastOp, pc, req, buf, fetch, run, calc, cmp, ws>>

\* The scan and the RX files; with data from fewer than two antennas the
\* analysis returns here.
AnalyzeScan ==
    /\ art.pc = "scan"
    /\ \E with_data \in 0..2 :
           art' = [art EXCEPT
                      !.files = IF with_data > 0 THEN @ \cup {"rx"} ELSE @,
                      !.pc = IF with_data < 2 THEN "idle" ELSE "tx",
                      !.outcome = IF with_data < 2 THEN "not_enough" ELSE @]
    /\ UNCHANGED <<log, antennas, now, lastOp, pc, req, buf, fetch, run, calc, cmp, ws>>

\* The TX section: an exception of fetch_spots ends the analysis.
AnalyzeSpots ==
    /\ art.pc = "tx"
    /\ \E raised \in BOOLEAN :
           art' = [art EXCEPT !.pc = IF raised THEN "idle" ELSE "report",
                              !.outcome = IF raised THEN "raised" ELSE @]
    /\ UNCHANGED <<log, antennas, now, lastOp, pc, req, buf, fetch, run, calc, cmp, ws>>

\* report.txt and map_data.json, the last writes.
AnalyzeReport ==
    /\ art.pc = "report"
    /\ art' = [art EXCEPT !.files = @ \cup {"report", "map"},
                          !.pc = "idle", !.outcome = "done"]
    /\ UNCHANGED <<log, antennas, now, lastOp, pc, req, buf, fetch, run, calc, cmp, ws>>

\* cmd_note with a comparison id: exit when there is no session.json, else
\* append the note to its "notes" and write the file back.
CmdNote ==
    /\ art.pc = "idle"
    /\ \E text \in {"x", "y"} :
           IF ~art.session.exists
           THEN art' = [art EXCEPT !.outcome = "no_comparison"]
           ELSE /\ Len(art.session.notes) < MaxNotes
                /\ art' = [art EXCEPT !.session.notes = Append(@, text),
                                      !.outcome = "noted"]
    /\ UNCHANGED <<log, antennas, now, lastOp, pc, req, buf, fetch, run, calc, cmp, ws>>

\* list_comparisons: the entry of the directory, if it exists.
list_comparisons(a) ==
    IF ~a.dir THEN <<>>
    ELSE <<[has_report |-> "report" \in a.files,
            has_session |-> a.session.exists]>>

NextArtifact ==
    AnalyzeBegin \/ AnalyzeScan \/ AnalyzeSpots \/ AnalyzeReport \/ CmdNote

SpecArtifact == Init /\ [][NextArtifact]_vars

\* ------------------------------------------------------------------ wspr_band.py

\* What ser.readline() can give within the handshake: a "TX:" line with the
\* requested frequency or with another one, an "OK" line, an "ERR" line, any
\* other line, and the empty result of a timeout.
Lines == {"TX:new", "TX:old", "OK", "ERR", "other", ""}

\* line.startswith(p) on those lines.
startswith(line, p) ==
    <<line, p>> \in {<<"TX:new", "TX:">>, <<"TX:old", "TX:">>,
                     <<"OK", "OK">>, <<"ERR", "ERR">>}

\* wait_for(ser, prefixes) on the next line read: None ("none") when the
\* line is empty, the line when it starts with one of the prefixes, and
\* "again" when the loop reads on.
wait_for(line, prefixes) ==
    IF line = "" THEN None
    ELSE IF \E p \in prefixes : startswith(line, p) THEN line
    ELSE "again"

\* The serial timeout leaves the handshake without the finally clause.
WsprWaitIdle_exit_unclosed ==
    /\ ws.pc = "wait_idle"
    /\ Len(ws.rx) < MaxLines
    /\ \E line \in Lines :
           LET got == wait_for(line, {"TX:"})
           IN  ws' = [ws EXCEPT
                         !.rx = Append(@, line),
                         !.pc = IF got = None THEN "done"
                                ELSE IF got = "again" THEN "wait_idle" ELSE "write",
                         !.exit = IF got = None THEN "Timeout waiting for TX line" ELSE @]
    /\ UNCHANGED <<log, antennas, now, lastOp, pc, req, buf, fetch, run, calc, cmp, art>>

\* An ERR response is taken for an OK.
WsprWaitResponse_err_accepted ==
    /\ ws.pc = "wait_response"
    /\ Len(ws.rx) < MaxLines
    /\ \E line \in Lines :
           LET response == wait_for(line, {"OK", "ERR"})
           IN  ws' = [ws EXCEPT
                         !.rx = Append(@, line),
                         !.pc = IF response = None THEN "finally"
                                ELSE IF response = "again" THEN "wait_response"
                                ELSE "wait_confirm",
                         !.exit = IF response = None
                                  THEN "No response received from beacon" ELSE @]
    /\ UNCHANGED <<log, antennas, now, lastOp, pc, req, buf, fetch, run, calc, cmp, art>>

\* serial.Serial(device, baud): the port opens, or SerialException ends the
\* program in handle_serial_error before the try block.
WsprOpen ==
    /\ ws.pc = "start"
    /\ \E opened \in BOOLEAN :
           ws' = [ws EXCEPT !.open = opened,
                            !.pc = IF opened THEN "wait_idle" ELSE "done",
                            !.exit = IF opened THEN @ ELSE "Failed to open"]
    /\ UNCHANGED <<log, antennas, now, lastOp, pc, req, buf, fetch, run, calc, cmp, art>>

\* One line read by wait_for(ser, "TX:"); sys.exit raises into the finally
\* clause.
WsprWaitIdle ==
    /\ ws.pc = "wait_idle"
    /\ Len(ws.rx) < MaxLines
    /\ \E line \in Lines :
           LET got == wait_for(line, {"TX:"})
           IN  ws' = [ws EXCEPT
                         !.rx = Append(@, line),
                         !.pc = IF got = None THEN "finally"
                                ELSE IF got = "again" THEN "wait_idle" ELSE "write",
                         !.exit = IF got = None THEN "Timeout waiting for TX line" ELSE @]
    /\ UNCHANGED <<log, antennas, now, lastOp, pc, req, buf, fetch, run, calc, cmp, art>>

\* ser.write(config_str): the tx entry records how many lines had been read.
\* A SerialException of the write passes through the finally clause.
WsprWrite ==
    /\ ws.pc = "write"
    /\ \E written \in BOOLEAN :
           ws' = [ws EXCEPT
                     !.tx = IF written THEN Append(@, Len(ws.rx)) ELSE @,
                     !.pc = IF written THEN "wait_response" ELSE "finally",
                     !.exit = IF written THEN @ ELSE "SerialException"]
    /\ UNCHANGED <<log, antennas, now, lastOp, pc, req, buf, fetch, run, calc, cmp, art>>

\* One line read by wait_for(ser, ("OK", "ERR")).
WsprWaitResponse ==
    /\ ws.pc = "wait_response"
    /\ Len(ws.rx) < MaxLines
    /\ \E line \in Lines :
           LET response == wait_for(line, {"OK", "ERR"})
           IN  ws' = [ws EXCEPT
                         !.rx = Append(@, line),
                         !.pc = IF response \in {None, "ERR"} THEN "finally"
                                ELSE IF response = "again" THEN "wait_response"
                                ELSE "wait_confirm",
                         !.exit = IF response = None
                                  THEN "No response received from beacon"
                                  ELSE IF response = "ERR"
                                  THEN "Beacon rejected configuration" ELSE @]
    /\ UNCHANGED <<log, antennas, now, lastOp, pc, req, buf, fetch, run, calc, cmp, art>>

\* One line read by the second wait_for(ser, "TX:"), and the test of the
\* frequency in it.
WsprWaitConfirm ==
    /\ ws.pc = "wait_confirm"
    /\ Len(ws.rx) < MaxLines
    /\ \E line \in Lines :
           LET tx_line == wait_for(line, {"TX:"})
           IN  ws' = [ws EXCEPT
                         !.rx = Append(@, line),
                         !.pc = IF tx_line = "again" THEN "wait_confirm" ELSE "finally",
                         !.success = tx_line = "TX:new",
                         !.exit = IF tx_line = None THEN "No TX confirmation"
                                  ELSE IF tx_line = "TX:old" THEN "1"
                                  ELSE IF tx_line = "TX:new" THEN "0" ELSE @]
    /\ UNCHANGED <<log, antennas, now, lastOp, pc, req, buf, fetch, run, calc, cmp, art>>

\* finally: ser.close(), then the exit.
WsprClose ==
    /\ ws.pc = "finally"
    /\ ws' = [ws EXCEPT !.open = FALSE, !.closed = @ + 1, !.pc = "done"]
    /\ UNCHANGED <<log, antennas, now, lastOp, pc, req, buf, fetch, run, calc, cmp, art>>

NextWspr ==
    \/ WsprOpen \/ WsprWaitIdle \/ WsprWrite \/ WsprWaitResponse
    \/ WsprWaitConfirm \/ WsprClose

SpecWspr == Init /\ [][NextWspr]_vars

\* ================================================================== claims

\* The three states of the session state machine, read off the derived status.
Inactive(lg) == ~get_session_status(lg).active
Running(lg) == get_session_status(lg).active /\ ~get_session_status(lg).paused
Paused(lg) == get_session_status(lg).active /\ get_session_status(lg).paused

\* This step is the return of a handler for op.
Called(op) == lastOp'.op = op /\ (lastOp' # lastOp \/ log' # log)

\* This step appended exactly one entry, an op event, to the stored log.
Appended(op) ==
    /\ Len(log') = Len(log) + 1
    /\ SubSeq(log', 1, Len(log)) = log
    /\ log'[Len(log')].event = op

\* C1: a start (from the command line or the web) made while the status
\* derived from the log is Running or Paused returns an error and appends
\* nothing; a start that is accepted found the derived state Inactive and
\* appended one start event.
C1_StartOnlyWhenInactive ==
    [][Called("start") =>
         /\ ~Inactive(log) => (~lastOp'.ok /\ log' = log)
         /\ lastOp'.ok => (Inactive(log) /\ Appended("start"))]_vars

\* A start was refused while the session was paused.
C1_Witness == lastOp = [op |-> "start", ok |-> FALSE] /\ Paused(log)

\* C2: pause is rejected when the derived state is Paused, resume when it is
\* not Paused, and stop, pause, resume and use when it is Inactive; the
\* outcome of stop, pause and resume is a function of the status replayed from
\* the log alone, and an accepted use found the session active.
C2_RejectedByDerivedState ==
    [][/\ Called("pause") => (lastOp'.ok <=> Running(log))
       /\ Called("resume") => (lastOp'.ok <=> Paused(log))
       /\ Called("stop") => (lastOp'.ok <=> ~Inactive(log))
       /\ Called("use") => (lastOp'.ok => ~Inactive(log))]_vars

\* A pause was refused because the session was already paused.
C2_Witness == lastOp = [op |-> "pause", ok |-> FALSE] /\ Paused(log)

\* C3: a handler that returns an error (an invalid transition, or use with a
\* label the registry does not hold) leaves the stored log as it was.
C3_RejectedLeavesLog == [][~lastOp'.ok => log' = log]_vars

\* A use was refused in an active session, so for its unknown label.
C3_Witness ==
    /\ lastOp = [op |-> "use", ok |-> FALSE]
    /\ ~Inactive(log)
    /\ Len(log) < MaxLog

\* C4: the derived status is one of Inactive, Running, Paused: it never
\* reports paused = true while active = false.
C4_ThreeStates ==
    get_session_status(log).paused => get_session_status(log).active

\* C5: no save drops an event that a handler has reported as appended: every
\* entry of the stored log is still in the stored log after any step.
C5_NoAcceptedEventLost ==
    [][\A i \in 1..Len(log) : \E j \in 1..Len(log') : log'[j] = log[i]]_vars

\* The session state machine of the design: start from Inactive only, pause
\* from Running, resume from Paused, stop and use from Running or Paused.
machine_step(q, ev) ==
    CASE q = "Inactive" /\ ev = "start" -> "Running"
      [] q = "Running" /\ ev = "pause" -> "Paused"
      [] q = "Paused" /\ ev = "resume" -> "Running"
      [] q \in {"Running", "Paused"} /\ ev = "stop" -> "Inactive"
      [] q \in {"Running", "Paused"} /\ ev = "use" -> q
      [] OTHER -> "Forbidden"

RECURSIVE machine_run(_, _)
machine_run(lg, n) ==
    IF n = 0 THEN "Inactive" ELSE machine_step(machine_run(lg, n - 1), lg[n].event)

\* The machine accepts lg when its events are applied one after another.
Accepts(lg) == machine_run(lg, Len(lg)) # "Forbidden"

\* C6: interleaved appends put a sequence the state machine forbids into the
\* stored log, and they do so in one way only: a save turns a copy the machine
\* accepts into a forbidden log only when it is the save of a web handler
\* whose check was made on a status that the copy it appended to no longer has.
C6_ForbiddenByStaleCheckOnly ==
    [][\A p \in Procs :
         (/\ pc[p] = "stamped"
          /\ pc'[p] = "idle"
          /\ Accepts(buf[p].log)
          /\ ~Accepts(log'))
         => (req[p].src = "web" /\ req[p].seen # session_flags(buf[p].log))]_vars

\* The stored log holds two pause events with no resume between them.
C6_Witness ==
    \E i \in 1..(Len(log) - 1) :
        log[i].event = "pause" /\ log[i + 1].event = "pause"

\* The readings "now" may take when the intervals are requested.
Later == now..(now + 1)

\* The events of a log, in order.
Kinds(lg) == [i \in 1..Len(lg) |-> lg[i].event]

\* Each interval has start <= end and ends no later than the next one starts.
Ordered(ivs) ==
    \A i \in 1..Len(ivs) :
        /\ ivs[i].start <= ivs[i].end
        /\ i < Len(ivs) => ivs[i].end <= ivs[i + 1].start

\* C7: for every log the session operations produce, the intervals derived by
\* get_session_intervals and by cmd_analyze are in chronological order and
\* pairwise non-overlapping, whenever they are requested.
C7_IntervalsOrdered ==
    \A t \in Later :
        /\ Ordered(get_session_intervals(log, t))
        /\ Ordered(analyze_intervals(log, t))

\* Three intervals, with a gap between the first two and time spent in each.
C7_Witness ==
    LET ivs == get_session_intervals(log, now)
    IN  /\ Len(ivs) >= 3
        /\ Len(analyze_intervals(log, now)) >= 3
        /\ ivs[1].end < ivs[2].start
        /\ ivs[2].start < ivs[2].end

\* The resume that ends the pause at position i: position j, if it is a resume
\* with no resume between i and j.
NextResume(lg, i, j) ==
    /\ i < j
    /\ lg[i].event = "pause"
    /\ lg[j].event = "resume"
    /\ \A k \in (i + 1)..(j - 1) : lg[k].event # "resume"

\* C8: no record stamped strictly between a pause event and the next resume
\* event is joined to an interval, neither by the analysis nor by the preview.
C8_PausedDataIgnored ==
    \A i, j \in 1..Len(log) :
        NextResume(log, i, j) =>
            \A t \in (log[i].timestamp + 1)..(log[j].timestamp - 1) :
                /\ interval_for(get_session_intervals(log, now), t) = 0
                /\ interval_for(analyze_intervals(log, now), t) = 0

UseIsOpen(lg) ==
    /\ lg # <<>>
    /\ lg[Len(lg)].event = "use"
    /\ Running(lg)

\* C10: when the session is still running and its last event selected an
\* antenna, the intervals end with that antenna's interval, from that use to
\* "now", in get_session_intervals and in cmd_analyze alike.
C10_OpenIntervalClosedAtNow ==
    UseIsOpen(log) =>
        \A t \in Later :
            LET e == log[Len(log)]
                ivs == get_session_intervals(log, t)
                avs == analyze_intervals(log, t)
            IN  /\ ivs # <<>>
                /\ ivs[Len(ivs)] =
                     [antenna |-> e.antenna, start |-> e.timestamp, end |-> t,
                      band |-> e.band]
                /\ avs # <<>>
                /\ avs[Len(avs)] =
                     [antenna |-> e.antenna, description |-> e.description,
                      band |-> e.band, start |-> e.timestamp, end |-> t]

\* The use event whose interval is open just before entry i of lg: the last
\* use before i with nothing but resume events after it; 0 when there is none.
OpenUse(lg, i) ==
    LET ks == {k \in 1..(i - 1) :
                  /\ lg[k].event = "use"
                  /\ \A m \in (k + 1)..(i - 1) : lg[m].event = "resume"}
    IN  IF ks = {} THEN 0 ELSE CHOOSE k \in ks : TRUE

\* No use event after entry i of lg is stamped at or before t.
NoUseUpTo(lg, i, t) ==
    \A k \in (i + 1)..Len(lg) : lg[k].event = "use" => lg[k].timestamp > t

\* Record times, up to one tick past the last reading of the clock.
RecordTimes == 0..(MaxTime + 1)

\* C11: a pause closes the open interval at the pause timestamp, and from the
\* pause until the next use no interval is open: a resume opens nothing, so a
\* record stamped from the pause on and before the next use (between a resume
\* and the following use, say) is joined to no interval, in either builder.
C11_PauseClosesResumeOpensNothing ==
    \A i \in 1..Len(log) :
        log[i].event = "pause" =>
            \A c \in Later :
                LET ivs == get_session_intervals(log, c)
                    avs == analyze_intervals(log, c)
                    k == OpenUse(log, i)
                IN  /\ k # 0 =>
                          /\ \E n \in 1..Len(ivs) :
                                 ivs[n] = [antenna |-> log[k].antenna,
                                           start |-> log[k].timestamp,
                                           end |-> log[i].timestamp,
                                           band |-> log[k].band]
                          /\ \E n \in 1..Len(avs) :
                                 avs[n] = [antenna |-> log[k].antenna,
                                           description |-> log[k].description,
                                           band |-> log[k].band,
                                           start |-> log[k].timestamp,
                                           end |-> log[i].timestamp]
                    /\ \A t \in RecordTimes :
                           (log[i].timestamp <= t /\ NoUseUpTo(log, i, t)) =>
                               /\ interval_for(ivs, t) = 0
                               /\ interval_for(avs, t) = 0

\* A pause closed an interval of positive length, and a tick passed between
\* the resume that followed and the next use.
C11_Witness ==
    \E i, j, k \in 1..Len(log) :
        /\ NextResume(log, i, j)
        /\ OpenUse(log, i) # 0
        /\ log[OpenUse(log, i)].timestamp < log[i].timestamp
        /\ j < k
        /\ log[k].event = "use"
        /\ \A m \in (i + 1)..(k - 1) : log[m].event # "use"
        /\ log[j].timestamp < log[k].timestamp

\* Interval iv holds a record stamped t: start <= t < end.
Holds(iv, t) == iv.start <= t /\ t < iv.end

\* The join of a record stamped t against the interval list ivs obeys the
\* rule of C12.
JoinRule(ivs, t) ==
    LET idx == interval_for(ivs, t)
    IN  /\ idx = 0 <=> ~\E n \in 1..Len(ivs) : Holds(ivs[n], t)
        /\ idx # 0 =>
               /\ Holds(ivs[idx], t)
               /\ \A n \in 1..Len(ivs) : Holds(ivs[n], t) => n = idx
        /\ \A n \in 1..Len(ivs) :
               /\ ivs[n].end = t => idx # n
               /\ (ivs[n].start = t /\ t < ivs[n].end) => idx = n

\* C12: a record is joined to the first interval with start <= t < end and to
\* no interval when none holds it; at most one interval holds it; a record
\* stamped at a switch time goes to the interval that opens there, never to
\* the one that closes there. For the intervals of both builders.
C12_JoinHalfOpen ==
    \A c \in Later, t \in RecordTimes :
        /\ JoinRule(get_session_intervals(log, c), t)
        /\ JoinRule(analyze_intervals(log, c), t)

\* A switch from A to B at a time t, both intervals of positive length: the
\* record stamped t is joined to B's interval.
C12_Witness ==
    LET ivs == get_session_intervals(log, now)
        avs == analyze_intervals(log, now)
    IN  /\ Len(ivs) >= 2
        /\ ivs[1].antenna = "A" /\ ivs[2].antenna = "B"
        /\ ivs[1].start < ivs[1].end
        /\ ivs[1].end = ivs[2].start
        /\ ivs[2].start < ivs[2].end
        /\ interval_for(ivs, ivs[2].start) = 2
        /\ Len(avs) >= 2
        /\ interval_for(avs, avs[2].start) = 2

\* C14: clear is accepted in every state and leaves the empty log; the status
\* derived from it is Inactive, not paused, with no current antenna; both
\* builders derive no interval from it; the start that follows is accepted.
C14_ClearResets ==
    /\ [](ENABLED CmdClear /\ ENABLED ApiClear)
    /\ [][/\ Called("clear") =>
               /\ lastOp'.ok
               /\ log' = <<>>
               /\ Inactive(log')
               /\ ~get_session_status(log').paused
               /\ get_session_status(log').current_antenna = None
               /\ \A t \in Later :
                      /\ get_session_intervals(log', t) = <<>>
                      /\ analyze_intervals(log', t) = <<>>
          /\ (lastOp.op = "clear" /\ Called("start")) =>
               (lastOp'.ok /\ Appended("start"))]_vars

\* The log holds one start stamped after an earlier session had run: the log
\* of that session was cleared and the start that followed was accepted.
C14_Witness ==
    /\ Len(log) = 1
    /\ log[1].event = "start"
    /\ log[1].timestamp >= 2
    /\ lastOp = [op |-> "start", ok |-> TRUE]

\* C15: an accepted use appends one use event carrying the description the
\* registry holds for its label at that moment; a later define, update or
\* delete changes no event of the log and no interval either builder derives
\* (label and description included).
C15_DescriptionSnapshot ==
    [][/\ (Called("use") /\ lastOp'.ok) =>
              /\ Appended("use")
              /\ log'[Len(log')].antenna \in DOMAIN antennas
              /\ log'[Len(log')].description =
                     antennas[log'[Len(log')].antenna]
       /\ antennas' # antennas =>
              /\ log' = log
              /\ \A t \in Later :
                     /\ analyze_intervals(log', t) = analyze_intervals(log, t)
                     /\ get_session_intervals(log', t) =
                            get_session_intervals(log, t)
       /\ \A t \in Later :
              LET avs == analyze_intervals(log', t)
              IN  \A n \in 1..Len(avs) :
                      \E i \in 1..Len(log') :
                          /\ log'[i].event = "use"
                          /\ log'[i].timestamp = avs[n].start
                          /\ log'[i].antenna = avs[n].antenna
                          /\ log'[i].description = avs[n].description]_vars

\* The log holds a use of A with the description A had then, and the registry
\* has since given A another description or dropped it; the analysis still
\* reports the interval under the old description.
C15_Witness ==
    /\ \E i \in 1..Len(log) :
           /\ log[i].event = "use"
           /\ log[i].antenna = "A"
           /\ log[i].description = "dipole"
    /\ ("A" \notin DOMAIN antennas \/ antennas["A"] = "loop")
    /\ \E n \in 1..Len(analyze_intervals(log, now)) :
           analyze_intervals(log, now)[n].description = "dipole"

\* The delays of a call grow strictly from one to the next.
Increasing(sl) == \A i, j \in 1..Len(sl) : i < j => sl[i] < sl[j]

\* C16: met by HTTP 429 on three consecutive attempts, fetch_spots makes
\* exactly 3 attempts, sleeps strictly longer before each new attempt, and
\* then returns the empty list without raising.
C16_RateLimitBackoff ==
    (fetch.pc = "done" /\ fetch.answers = <<"429", "429", "429">>) =>
        /\ Len(fetch.sleeps) = 2
        /\ Increasing(fetch.sleeps)
        /\ fetch.result = "empty"

\* Answers that are failures, and those of them that are not rate limiting.
Failures == {"429", "http_error", "transport", "unparsable"}
OtherFailures == Failures \ {"429"}

\* C17: whatever failures the attempts meet, fetch_spots returns an empty list
\* once they are used up and never raises; a failure other than rate limiting
\* is retried after a flat delay, up to 3 attempts in all.
C17_NeverRaises ==
    fetch.pc = "done" =>
        /\ fetch.result # "raised"
        /\ (\A i \in 1..Len(fetch.answers) : fetch.answers[i] \in Failures) =>
               (Len(fetch.answers) = MaxAttempts /\ fetch.result = "empty")
        /\ \A i \in 1..Len(fetch.sleeps) :
               fetch.answers[i] \in OtherFailures => fetch.sleeps[i] = 1

\* C18: a call makes at most 3 requests and sleeps at most twice, and a
\* successful response on any attempt ends it at once: no request follows.
C18_BoundedAndStopsOnSuccess ==
    /\ Len(fetch.answers) <= 3
    /\ Len(fetch.sleeps) <= 2
    /\ \A i \in 1..Len(fetch.answers) :
           fetch.answers[i] \in {"ok_spots", "ok_empty"} =>
               (i = Len(fetch.answers) /\ fetch.pc = "done")

\* This step is an analysis entering its TX section.
TxStep == run.pc = "idle" /\ run'.n = run.n + 1

\* C19: once an analysis of a run has queried PSKReporter, every later
\* analysis of that run reads the cache and sends no further query.
C19_QueriedOnce ==
    [][(TxStep /\ run.queries >= 1) =>
           (run'.tx = "cache" /\ run'.queries = run.queries)]_vars

SectorHalfUp(b2) == sectors[(((b2 + 45) \div 90) % 8) + 1]

\* C30: sector(bearing) is the octant of index round(bearing / 45) mod 8, a
\* bearing exactly between two centres (22.5, 67.5, ... 337.5) going to the
\* higher-index neighbour, and 360 degrees giving the octant of 0 degrees.
C30_SectorRoundsHalfUp ==
    calc.op = "sector" =>
        /\ calc.out = SectorHalfUp(calc.arg[1])
        /\ calc.arg[1] = 720 => calc.out = bearing_to_sector(0)

Meaningful(a, b) == 5 * Abs(a - b) > Max(a, b)

\* C24: in the reach fallback, for every pair of reach counts, a count of
\* zero included, the antenna with the larger reach is declared better, and
\* credited, iff the difference strictly exceeds 20% of the larger count;
\* otherwise the verdict is "similar" and nobody is credited.
C24_ReachThreshold ==
    (calc.op = "reach" /\ calc.arg # <<0, 0>>) =>
        LET a == calc.arg[1]
            b == calc.arg[2]
        IN  /\ calc.out[1] = IF ~Meaningful(a, b) THEN "similar"
                             ELSE IF a > b THEN "ant" ELSE "baseline"
            /\ calc.out[2] = IF ~Meaningful(a, b) THEN None
                             ELSE IF a > b THEN "ant" ELSE "baseline"

\* C21: the baseline the comparison reports is the antenna of the interval
\* with the earliest start, whatever records were scanned and whichever
\* antennas have records.
C21_BaselineIsEarliest ==
    cmp.pc = "reported" =>
        /\ cmp.all_antennas[1] = session_intervals(cmp.labels)[1].antenna
        /\ \A band \in all_bands(cmp.data) :
               LET r == rx_band(cmp.all_antennas, cmp.data, band)
               IN  r.kind = "snr" =>
                       r.baseline = session_intervals(cmp.labels)[1].antenna

\* The antennas that have an interval in the session.
SessionAntennas(labels) ==
    {session_intervals(labels)[i].antenna : i \in 1..Len(session_intervals(labels))}

\* C22: within a band the reported common-station set is the intersection,
\* over every antenna with an interval in the session, of the callsigns matched
\* to that antenna on that band (its size the reported count).
C22_CommonIsIntersection ==
    cmp.pc = "reported" =>
        \A band \in all_bands(cmp.data) :
            rx_band(cmp.all_antennas, cmp.data, band).common =
                {c \in Calls :
                    \A ant \in SessionAntennas(cmp.labels) :
                        c \in calls_by_antenna(cmp.data, ant, band)}

\* C23: a band without common stations is compared by reach, the number of
\* distinct callsigns per antenna, on the receive side too.
C23_RxReachFallback ==
    cmp.pc = "reported" =>
        \A band \in all_bands(cmp.data) :
            LET r == rx_band(cmp.all_antennas, cmp.data, band)
            IN  r.common = {} => r.kind = "reach"

\* C25: the recommendation names an antenna only when its total is strictly
\* higher than every other antenna's; when two or more share the highest total
\* (all totals zero included) the result is the inconclusive message.
C25_NoPickOnTie ==
    calc.op = "recommend" =>
        LET tw == calc.arg
        IN  \A i \in 1..Len(tw) :
                calc.out = i <=> \A j \in 1..Len(tw) : j # i => tw[j] < tw[i]

\* ------------------------------------------------------------------ C28
\* A Maidenhead locator: two field letters A-R, two digits and, when it has
\* six characters, two subsquare letters A-X.
ValidLocator(grid) ==
    LET letters == <<"A", "B", "C", "D", "E", "F", "G", "H", "I", "J", "K", "L",
                     "M", "N", "O", "P", "Q", "R", "S", "T", "U", "V", "W", "X">>
        upto(n) == {letters[i] : i \in 1..n}
        digits == {"0", "1", "2", "3", "4", "5", "6", "7", "8", "9"}
    IN  /\ Len(grid) \in {4, 6}
        /\ \A i \in 1..2 : upper(grid[i]) \in upto(18)
        /\ \A i \in 3..4 : grid[i] \in digits
        /\ \A i \in 5..Len(grid) : upper(grid[i]) \in upto(24)

\* An analysis has just been asked for: the step leaves the idle state on an
\* outcome that is not one of cmd_note.
AnalyzeAsked ==
    /\ art.pc = "idle"
    /\ art' # art
    /\ art'.outcome \notin {"noted", "no_comparison"}

\* C28: an analysis asked for without ALL.TXT, or with an own grid that is no
\* valid locator, ends with a diagnostic and creates or changes neither the
\* comparison directory nor a file in it.
C28_RefusedRunLeavesNoArtifact ==
    [][(AnalyzeAsked /\ (~art'.all_txt \/ ~ValidLocator(art'.grid)))
          => /\ art'.outcome \in {"no_all_txt", "invalid_grid"}
             /\ art'.pc = "idle"
             /\ art'.dir = art.dir
             /\ art'.session = art.session
             /\ art'.files = art.files]_vars

\* ------------------------------------------------------------------ C27
\* C27: whenever no analysis is running, a comparison directory that
\* list_comparisons shows holds all of its files: session.json, report.txt and
\* map_data.json.
C27_ListedOnlyWhenComplete ==
    (art.pc = "idle" /\ list_comparisons(art) # <<>>)
        => /\ art.session.exists
           /\ {"report", "map"} \subseteq art.files

\* ------------------------------------------------------------------ C29
\* C29: no step removes or rewrites a note already stored in session.json:
\* the notes before the step are a prefix of the notes after it.
C29_NotesNeverRemoved ==
    [][art.session.exists
          => /\ Len(art'.session.notes) >= Len(art.session.notes)
             /\ SubSeq(art'.session.notes, 1, Len(art.session.notes))
                    = art.session.notes]_vars

\* ------------------------------------------------------------------ C31
\* C31: when a message holds grid-shaped tokens, the grid recorded for the
\* decode is the first of them.
C31_FirstGridWins ==
    (calc.op = "grid" /\ \E i \in 1..Len(calc.arg) : grid_re(calc.arg[i]))
        => LET first == CHOOSE i \in 1..Len(calc.arg) :
                            /\ grid_re(calc.arg[i])
                            /\ \A j \in 1..(i-1) : ~grid_re(calc.arg[j])
           IN  calc.out = calc.arg[first]

\* ------------------------------------------------------------------ C35
\* C35: on one band no antenna, the baseline included, is given more than one
\* RX win.
C35_OneWinPerBand ==
    calc.op = "wins" => \A i \in 1..Len(calc.out) : calc.out[i] <= 1

\* ------------------------------------------------------------------ C32
\* The lines read after the CONFIG line was written.
AfterConfig == {i \in 1..Len(ws.rx) : ws.tx # <<>> /\ i > ws.tx[1]}
\* The response: the first OK or ERR line after the CONFIG line.
IsResponse(i) ==
    /\ i \in AfterConfig
    /\ ws.rx[i] \in {"OK", "ERR"}
    /\ \A j \in AfterConfig : j < i => ws.rx[j] \notin {"OK", "ERR", ""}
\* A wait has timed out: the last line read is the empty one.
TimedOut == ws.rx # <<>> /\ ws.rx[Len(ws.rx)] = ""
Failed == ws.pc \in {"finally", "done"} /\ ~ws.success /\ ws.exit \notin {None, "0"}

Plain(iv) == [antenna |-> iv.antenna, start |-> iv.start, end |-> iv.end,
              band |-> iv.band]

\* C34: for every log the session operations produce, the intervals
\* cmd_analyze builds are those of get_session_intervals: same antennas,
\* bands, starts and ends, the clock reading the same.
C34_SameIntervals ==
    \A t \in Later :
        LET avs == analyze_intervals(log, t)
        IN  [i \in 1..Len(avs) |-> Plain(avs[i])] = get_session_intervals(log, t)

\* ------------------------------------------------------------------ C37
\* The log ends with use, pause, resume.
ResumedWithoutUse(lg) ==
    /\ Len(lg) >= 4
    /\ SubSeq(Kinds(lg), Len(lg) - 2, Len(lg)) = <<"use", "pause", "resume">>

\* C37: after start, use(A), pause, resume and no further use, the status is
\* active and not paused with current antenna A, while neither builder has an
\* open interval: every interval ends by the pause, and a record stamped at
\* the resume or later is joined to no interval.
C37_StatusAheadOfIntervals ==
    ResumedWithoutUse(log) =>
        LET n == Len(log)
            st == get_session_status(log)
        IN  /\ st.active /\ ~st.paused
            /\ st.current_antenna = log[n - 2].antenna
            /\ \A c \in Later :
                   LET ivs == get_session_intervals(log, c)
                       avs == analyze_intervals(log, c)
                   IN  /\ \A i \in 1..Len(ivs) : ivs[i].end <= log[n - 1].timestamp
                       /\ \A i \in 1..Len(avs) : avs[i].end <= log[n - 1].timestamp
                       /\ \A t \in RecordTimes :
                              t >= log[n].timestamp =>
                                  /\ interval_for(ivs, t) = 0
                                  /\ interval_for(avs, t) = 0

\* start, use(A), pause, resume with time passing before the pause and before
\* the resume.
C37_Witness ==
    /\ Kinds(log) = <<"start", "use", "pause", "resume">>
    /\ log[2].antenna = "A"
    /\ log[2].timestamp < log[3].timestamp
    /\ log[3].timestamp < log[4].timestamp

\* ------------------------------------------------------------------ C38
\* C38: when a start follows a stop, the intervals built from the log up to
\* that stop stay at the head of the interval list of both builders, a record
\* stamped within one of them is still joined to it, and the session start
\* that names the artifact directory is the latest start.
C38_EarlierSessionsRemain ==
    \A i, j \in 1..Len(log) :
        (i < j /\ log[i].event = "stop" /\ log[j].event = "start") =>
            \A c \in Later :
                LET old == get_session_intervals(SubSeq(log, 1, i), c)
                    aold == analyze_intervals(SubSeq(log, 1, i), c)
                    ivs == get_session_intervals(log, c)
                    avs == analyze_intervals(log, c)
                    last == CHOOSE k \in 1..Len(log) :
                                /\ log[k].event = "start"
                                /\ \A m \in (k + 1)..Len(log) : log[m].event # "start"
                IN  /\ Len(old) <= Len(ivs) /\ SubSeq(ivs, 1, Len(old)) = old
                    /\ Len(aold) <= Len(avs) /\ SubSeq(avs, 1, Len(aold)) = aold
                    /\ \A n \in 1..Len(aold), t \in RecordTimes :
                           Holds(aold[n], t) => interval_for(avs, t) # 0
                    /\ analyze_replay(log, Len(log)).session_start = log[last].timestamp

\* A session with an interval of positive length was stopped, a new one was
\* started later and uses another antenna.
C38_Witness ==
    /\ Len(log) >= 5
    /\ SubSeq(Kinds(log), 1, 4) = <<"start", "use", "stop", "start">>
    /\ log[2].timestamp < log[3].timestamp
    /\ log[3].timestamp < log[4].timestamp
    /\ log[5].event = "use" /\ log[5].antenna # log[2].antenna

\* ------------------------------------------------------------------ C36
\* Replayed one entry after the other, every entry of lg passes the check of
\* its command on the entries before it.
Replayable(lg) ==
    \A n \in 1..Len(lg) :
        cli_ok(lg[n].event, SubSeq(lg, 1, n - 1), antennas, lg[n].antenna)

\* C36: with command line callers only, every stored log is a sequence the
\* commands accept one after the other, however the callers interleave.
C36_CliLogsReplayable == Replayable(log)

\* A caller is about to save over a log that another caller has extended
\* since: that caller's event is dropped.
C36_Witness ==
    \E p \in Procs :
        /\ pc[p] = "stamped"
        /\ Len(log) > Len(buf[p].log)
        /\ buf[p].entry.event = "stop"

\* ------------------------------------------------------------------ C39
\* C39: the TX comparison raises no exception, and every antenna that has a
\* TX spot with an SNR is among the antennas it compares.
C39_TxComparesAllWithSpots ==
    calc.op = "tx" =>
        /\ ~calc.out.raised
        /\ \A a \in calc.arg[2] :
               \E i \in 1..Len(calc.out.compared) : calc.out.compared[i] = a

====
